---- MODULE Spec2Model ----
(***************************************************************************)
(* Model of the zip-code lookup service, src/server/main.py: the process-  *)
(* wide AppState (kd_tree, zip_codes_list, db_connection), load_geo_data,  *)
(* find_nearest and the three routes /random, /nearest and /{query}.       *)
(* A second specification, SpecPlace, runs select_best_place_per_zip of    *)
(* src/bin/convert_zcta_place_to_zip_city_state.py on the rows of          *)
(* load_rel_file.                                                          *)
(*                                                                         *)
(* Strings that the code parses or compares are sequences of one-character *)
(* strings.  Floats are exact decimals num/den, or nan, or +-inf.          *)
(***************************************************************************)
EXTENDS Integers, Sequences, FiniteSets, TLC

VARIABLES
    db,              \* rows of table zip_codes, in table order
    dbChanges,       \* how often the table was rewritten by the batch job
    started,         \* lifespan has yielded: the routes are being served
    kd_tree,         \* state.kd_tree
    zip_codes_list,  \* state.zip_codes_list
    tree_rows,       \* history: the rows state.kd_tree was built from
    lpc,             \* position of the running load_geo_data
    lrows,           \* load_geo_data: local rows
    reloads,         \* how often load_geo_data ran after startup
    pc,              \* position of the request being handled
    req,             \* the request
    loc,             \* locals of the handler
    resp,            \* the response of the last request
    db_connection,   \* state.db_connection: "open" or "closed"
    place            \* the run of select_best_place_per_zip

vars == <<db, dbChanges, started, kd_tree, zip_codes_list, tree_rows,
          lpc, lrows, reloads, pc, req, loc, resp, db_connection, place>>

(***************************************************************************)
(* Bounds                                                                  *)
(***************************************************************************)
MaxDbChanges == 1
MaxReloads == 1
MaxRelRows == 3

(***************************************************************************)
(* Floats                                                                  *)
(***************************************************************************)
RECURSIVE GCD(_, _)
GCD(a, b) == IF b = 0 THEN a ELSE GCD(b, a % b)

Abs(n) == IF n < 0 THEN -n ELSE n

\* the decimal n/d (d > 0), in lowest terms
Num(n, d) ==
    LET g == GCD(Abs(n), d)
    IN  [kind |-> "num", num |-> n \div g, den |-> d \div g]
NaN == [kind |-> "nan", num |-> 0, den |-> 1]
Inf(sign) == [kind |-> "inf", num |-> sign, den |-> 1]
NULL == [kind |-> "null", num |-> 0, den |-> 1]
\* a column value that is text no float can be made of
Text == [kind |-> "text", num |-> 0, den |-> 1]

\* a <= b on Python floats: any comparison with nan is False
FLeq(a, b) ==
    IF a.kind = "nan" \/ b.kind = "nan" THEN FALSE
    ELSE IF a.kind = "inf" THEN (a.num < 0 \/ (b.kind = "inf" /\ b.num > 0))
    ELSE IF b.kind = "inf" THEN b.num > 0
    ELSE a.num * b.den <= b.num * a.den

\* exact squared Euclidean distance between two finite points, as num/den
Sq(x) == x * x

\* mutant: the distance measured along the latitude only
SqDistLatOnly(p, q) ==
    LET dlat == p[1].num * q[1].den - q[1].num * p[1].den
        mlat == p[1].den * q[1].den
    IN  Num(Sq(dlat), Sq(mlat))

SqDist(p, q) ==
    LET dlat == p[1].num * q[1].den - q[1].num * p[1].den
        dlng == p[2].num * q[2].den - q[2].num * p[2].den
        mlat == p[1].den * q[1].den
        mlng == p[2].den * q[2].den
    IN  Num(Sq(dlat) * Sq(mlng) + Sq(dlng) * Sq(mlat), Sq(mlat) * Sq(mlng))

FLess(a, b) == a.num * b.den < b.num * a.den

(***************************************************************************)
(* Strings: str.split(","), "," in s, float(s)                             *)
(***************************************************************************)
Digits == {"0", "1", "2", "3", "4", "5", "6", "7", "8", "9"}

DigitVal(c) ==
    CASE c = "0" -> 0 [] c = "1" -> 1 [] c = "2" -> 2 [] c = "3" -> 3
      [] c = "4" -> 4 [] c = "5" -> 5 [] c = "6" -> 6 [] c = "7" -> 7
      [] c = "8" -> 8 [] c = "9" -> 9

Contains(s, c) == \E i \in 1..Len(s) : s[i] = c

RECURSIVE SplitFrom(_, _, _, _)
SplitFrom(s, c, i, cur) ==
    IF i > Len(s) THEN <<cur>>
    ELSE IF s[i] = c THEN <<cur>> \o SplitFrom(s, c, i + 1, <<>>)
    ELSE SplitFrom(s, c, i + 1, Append(cur, s[i]))

Split(s, c) == SplitFrom(s, c, 1, <<>>)

RECURSIVE LStrip(_)
LStrip(s) == IF s # <<>> /\ Head(s) = " " THEN LStrip(Tail(s)) ELSE s

RECURSIVE RStrip(_)
RStrip(s) ==
    IF s # <<>> /\ s[Len(s)] = " " THEN RStrip(SubSeq(s, 1, Len(s) - 1)) ELSE s

Strip(s) == RStrip(LStrip(s))

AllDigits(s) == \A i \in 1..Len(s) : s[i] \in Digits

RECURSIVE DigitsVal(_)
DigitsVal(s) ==
    IF s = <<>> THEN 0
    ELSE 10 * DigitsVal(SubSeq(s, 1, Len(s) - 1)) + DigitVal(s[Len(s)])

RECURSIVE Pow10(_)
Pow10(n) == IF n = 0 THEN 1 ELSE 10 * Pow10(n - 1)

NoFloat == [ok |-> FALSE, val |-> NaN]

\* the unsigned part of a float literal: nan, inf, or digits[.digits]
ParseUnsigned(s, sign) ==
    IF s = <<"n", "a", "n">> THEN [ok |-> TRUE, val |-> NaN]
    ELSE IF s = <<"i", "n", "f">> THEN [ok |-> TRUE, val |-> Inf(sign)]
    ELSE LET parts == Split(s, ".")
             ip == parts[1]
             fp == IF Len(parts) = 2 THEN parts[2] ELSE <<>>
         IN  IF /\ Len(parts) <= 2
                /\ AllDigits(ip) /\ AllDigits(fp)
                /\ Len(ip) + Len(fp) > 0
             THEN [ok |-> TRUE,
                   val |-> Num(sign * (DigitsVal(ip) * Pow10(Len(fp)) + DigitsVal(fp)),
                               Pow10(Len(fp)))]
             ELSE NoFloat

\* float(s): ok = FALSE stands for ValueError
ParseFloat(s) ==
    LET t == Strip(s)
    IN  IF t = <<>> THEN NoFloat
        ELSE IF Head(t) = "-" THEN ParseUnsigned(Tail(t), -1)
        ELSE IF Head(t) = "+" THEN ParseUnsigned(Tail(t), 1)
        ELSE ParseUnsigned(t, 1)

(***************************************************************************)
(* Program constants                                                       *)
(***************************************************************************)
LAT_MAX == 90
LNG_MAX == 180

C(n) == Num(n, 1)

\* mutant: the upper latitude bound taken as exclusive
LatInRangeExclusive(lat) == FLeq(C(-LAT_MAX), lat) /\ ~FLeq(C(LAT_MAX), lat)

LatInRange(lat) == FLeq(C(-LAT_MAX), lat) /\ FLeq(lat, C(LAT_MAX))
LngInRange(lng) == FLeq(C(-LNG_MAX), lng) /\ FLeq(lng, C(LNG_MAX))

(***************************************************************************)
(* The table zip_codes.  A row keeps the columns zip, lat, lng, city and   *)
(* state; NoText is SQL NULL in a text column.                             *)
(***************************************************************************)
NoText == "<NULL>"

Row(z, la, ln, c, s) == [zip |-> z, lat |-> la, lng |-> ln, city |-> c, state |-> s]

Z00601 == <<"0", "0", "6", "0", "1">>
Z00602 == <<"0", "0", "6", "0", "2">>
Z96799 == <<"9", "6", "7", "9", "9">>
Z99950 == <<"9", "9", "9", "5", "0">>
Z99999 == <<"9", "9", "9", "9", "9">>

DS_EMPTY == <<>>

DS_NOCOORDS == << Row(Z00601, NULL, NULL, "Adjuntas", "PR") >>

DS_A == << Row(Z00602, NULL, NULL, "", "PR"),
           Row(Z00601, Num(185, 10), C(-66), "Adjuntas", "PR"),
           Row(Z99950, C(90), C(180), NoText, NoText),
           Row(Z96799, C(-90), C(-180), "Pago Pago", "AS") >>

DS_B == << Row(Z96799, C(-90), C(-180), "Pago Pago", "AS"),
           Row(Z00601, Num(185, 10), C(-66), "Adjuntas", "PR") >>

\* a table with a latitude that is not a number
DS_BAD == << Row(Z00601, Num(185, 10), C(-66), "Adjuntas", "PR"),
             Row(Z00602, Text, C(-66), "", "PR") >>

Datasets == {DS_EMPTY, DS_NOCOORDS, DS_A, DS_B, DS_BAD}

\* SELECT zip, lat, lng FROM zip_codes WHERE lat IS NOT NULL AND lng IS NOT NULL
SelectCoordRows(table) ==
    SelectSeq(table, LAMBDA r : r.lat.kind # "null" /\ r.lng.kind # "null")

\* SELECT * FROM zip_codes WHERE zip = ?, fetchone(): <<>> or <<row>>
SelectByZip(table, z) ==
    LET hits == SelectSeq(table, LAMBDA r : r.zip = z)
    IN  IF hits = <<>> THEN <<>> ELSE <<hits[1]>>

\* SELECT * FROM zip_codes ORDER BY RANDOM() LIMIT 1: the rows fetchone() may give
SelectRandom(table) == {table[i] : i \in 1..Len(table)}

(***************************************************************************)
(* scipy KDTree.  With leafsize=100 a tree of fewer than 100 points is one *)
(* leaf, and a query scans its points; which of several equidistant points *)
(* is reported is left to the library.                                     *)
(***************************************************************************)
NoTree == [isNone |-> TRUE, data |-> <<>>]

\* np.array(coords) converts to an array of floats: KDTree raises otherwise
Buildable(coords) ==
    \A i \in 1..Len(coords) : coords[i][1].kind = "num" /\ coords[i][2].kind = "num"

KDTree(coords) == [isNone |-> FALSE, data |-> coords]

RECURSIVE Scan(_, _, _, _)
Scan(data, q, i, best) ==
    IF i > Len(data) THEN best
    ELSE IF best = {} THEN Scan(data, q, i + 1, {i})
    ELSE LET d == SqDist(data[i], q)
             bd == SqDist(data[CHOOSE j \in best : TRUE], q)
         IN  IF FLess(d, bd) THEN Scan(data, q, i + 1, {i})
             ELSE IF FLess(bd, d) THEN Scan(data, q, i + 1, best)
             ELSE Scan(data, q, i + 1, best \cup {i})

\* kd_tree.query([lat, lng], k=1): the positions it may return
KDQuery(tree, q) == Scan(tree.data, q, 1, {})

RECURSIVE Coords(_)
Coords(rows) ==
    IF rows = <<>> THEN <<>>
    ELSE <<<<Head(rows).lat, Head(rows).lng>>>> \o Coords(Tail(rows))

RECURSIVE Zips(_)
Zips(rows) ==
    IF rows = <<>> THEN <<>> ELSE <<Head(rows).zip>> \o Zips(Tail(rows))

(***************************************************************************)
(* Requests: a path segment and the query parameters the routes declare.   *)
(***************************************************************************)
P_random == <<"r", "a", "n", "d", "o", "m">>
P_nearest == <<"n", "e", "a", "r", "e", "s", "t">>
P_zips == <<"z", "i", "p", "s">>

LatParts == { <<"-", "9", "1">>,
              <<"-", "9", "0">>,
              <<"1", "8", ".", "5">>,
              <<"9", "0">>,
              <<"9", "0", ".", "5">>,
              <<"9", "1">>,
              <<"n", "a", "n">>,
              <<"x">>,
              <<>> }

LngParts == { <<"-", "1", "8", "1">>,
              <<"-", "1", "8", "0">>,
              <<"-", "6", "6">>,
              <<"1", "8", "0">>,
              <<"1", "8", "1">>,
              <<"i", "n", "f">>,
              <<"x">> }

CoordPaths ==
    {a \o <<",">> \o b : a \in LatParts, b \in LngParts}
        \cup { <<"1", "8", ".", "5", ",", "-", "6", "6", ",", "0">> }

CodePaths == { Z00601, Z00602, Z99950, Z99999,
               <<" ", "0", "0", "6", "0", "1">>,
               <<"1", "8", ".", "5">> }

NearestLats == {C(-91), C(-90), Num(185, 10), C(90), C(91)}
NearestLngs == {C(-181), C(-180), C(-66), C(180), C(181)}

Request(p, la, ln, f, sb, o) ==
    [path |-> p, lat |-> la, lng |-> ln, city_and_state_only |-> f,
     sort_by |-> sb, order |-> o]

NoRequest == Request(<<>>, NULL, NULL, FALSE, "population", "desc")

Requests ==
    {Request(p, NULL, NULL, FALSE, "population", "desc") : p \in CoordPaths \cup CodePaths}
        \cup {Request(P_nearest, la, ln, FALSE, "population", "desc") :
                 la \in NearestLats, ln \in NearestLngs}
        \cup {Request(P_random, NULL, NULL, f, "population", "desc") : f \in BOOLEAN}
        \cup {Request(P_zips, NULL, NULL, FALSE, sb, o) :
                 sb \in {"population", "invalid_field"}, o \in {"desc", "invalid_order"}}

\* the route a path reaches: @app.get("/random"), ("/nearest"), ("/{query}"), in this order
Route(path) ==
    IF path = P_random THEN "get_random_zip"
    ELSE IF path = P_nearest THEN "get_nearest_zip"
    ELSE "get_zip_or_coords"

RequestsOf(handler) == {r \in Requests : Route(r.path) = handler}

RandomRequests == RequestsOf("get_random_zip")
NearestRequests == RequestsOf("get_nearest_zip")
QueryRequests == RequestsOf("get_zip_or_coords")

(***************************************************************************)
(* Responses                                                               *)
(***************************************************************************)
Response(st, d, b) == [status |-> st, detail |-> d, body |-> b]

NoResponse == Response(0, "", <<>>)
Ok(row) == Response(200, "", <<row>>)
HTTPException(st, d) == Response(st, d, <<>>)

IndexUnavailable == HTTPException(503, "Geospatial index not unavailable")
\* mutant: the inconsistency reported with the message of a missing zip code
DetailsNotFoundAsZipNotFound == HTTPException(404, "Zip code not found")

DetailsNotFound == HTTPException(404, "Zip code details not found")
DatabaseEmpty == HTTPException(404, "Database is empty")
BadLatitude ==
    HTTPException(400, "Latitude must be between -90 and 90. Expected format: /{latitude},{longitude}")
BadLongitude ==
    HTTPException(400, "Longitude must be between -180 and 180. Expected format: /{latitude},{longitude}")
ZipNotFound == HTTPException(404, "Zip code not found")
\* an exception no handler catches (IndexError)
ServerError == HTTPException(500, "Internal Server Error")

(***************************************************************************)
(* get_zip_or_coords, lines 137-154: what the path segment is taken for.   *)
(* float() is called on parts[0] first, so parts[1] is parsed only when    *)
(* parts[0] parsed; a ValueError falls through to the zip code lookup.     *)
(***************************************************************************)
Decision(k, la, ln) == [kind |-> k, lat |-> la, lng |-> ln]

\* mutant: any two leading parts are taken for a coordinate pair
DispatchLeadingPair(query) ==
    IF Contains(query, ",")
    THEN LET parts == Split(query, ",")
         IN  IF Len(parts) >= 2
             THEN LET lat == ParseFloat(parts[1])
                      lng == ParseFloat(parts[2])
                  IN  IF ~lat.ok \/ ~lng.ok THEN Decision("exact", NULL, NULL)
                      ELSE IF ~LatInRange(lat.val)
                          THEN Decision("bad_lat", lat.val, lng.val)
                      ELSE IF ~LngInRange(lng.val)
                          THEN Decision("bad_lng", lat.val, lng.val)
                      ELSE Decision("nearest", lat.val, lng.val)
             ELSE Decision("exact", NULL, NULL)
    ELSE Decision("exact", NULL, NULL)

Dispatch(query) ==
    IF Contains(query, ",")
    THEN LET parts == Split(query, ",")
         IN  IF Len(parts) = 2
             THEN LET lat == ParseFloat(parts[1])
                      lng == ParseFloat(parts[2])
                  IN  IF ~lat.ok \/ ~lng.ok THEN Decision("exact", NULL, NULL)
                      ELSE IF ~LatInRange(lat.val)
                          THEN Decision("bad_lat", lat.val, lng.val)
                      ELSE IF ~LngInRange(lng.val)
                          THEN Decision("bad_lng", lat.val, lng.val)
                      ELSE Decision("nearest", lat.val, lng.val)
             ELSE Decision("exact", NULL, NULL)
    ELSE Decision("exact", NULL, NULL)

\* Dispatch, tabulated over the paths that reach get_zip_or_coords
DispatchOf == [r \in QueryRequests |-> Dispatch(r.path)]

\* mutant: the code is trimmed before the lookup
LookupKeyStripped(query) == Strip(query)

\* the parameter bound to "WHERE zip = ?" at line 158
LookupKey(query) == query

(***************************************************************************)
(* Locals and history of the request being handled                         *)
(***************************************************************************)
NoLocals ==
    [ mode |-> "none",        \* branch taken: random, nearest, coords or exact
      lat |-> NULL, lng |-> NULL,
      index |-> 0,            \* find_nearest: index (1-based)
      nearest_zip |-> <<>>,   \* find_nearest: nearest_zip
      data |-> <<>>,          \* history: the points of the tree that was queried
      src_zip |-> <<>>,       \* history: zip of the row that tree position came from
      db_reads |-> 0,         \* history: statements run on state.db_connection
      seen |-> <<>>,          \* history: the table as the last statement read it
      tree_none |-> FALSE,    \* history: state.kd_tree was None when the handler ran
      handle |-> "none" ]     \* history: the connection the statements ran on

Enter(mode, lat, lng) ==
    [NoLocals EXCEPT !.mode = mode, !.lat = lat, !.lng = lng,
                     !.tree_none = kd_tree.isNone]

Ready == started /\ pc = "idle"

\* mutant: each route opens a connection of its own
CursorConnectionOwn == "get_db_connection()"

\* cursor = state.db_connection.cursor(): the connection a route runs its statement on
CursorConnection == "state.db_connection"

\* the script of select_best_place_per_zip does not run in the service
NoPlace == [pc |-> "off"]

Init ==
    /\ db \in Datasets
    /\ dbChanges = 0
    /\ started = FALSE
    /\ kd_tree = NoTree
    /\ zip_codes_list = <<>>
    /\ tree_rows = <<>>
    /\ lpc = "fetch"
    /\ lrows = <<>>
    /\ reloads = 0
    /\ pc = "idle"
    /\ req = NoRequest
    /\ loc = NoLocals
    /\ resp = NoResponse
    /\ db_connection = "open"
    /\ place = NoPlace

(***************************************************************************)
(* load_geo_data                                                           *)
(***************************************************************************)
\* lines 52-62: fetch the rows; return when there are none
LoadFetch ==
    /\ lpc = "fetch"
    /\ LET rows == SelectCoordRows(db)
       IN  IF rows = <<>>
           THEN /\ lpc' = "idle"
                /\ started' = TRUE
                /\ lrows' = <<>>
           ELSE /\ lpc' = "assign_list"
                /\ started' = started
                /\ lrows' = rows
    /\ UNCHANGED <<db_connection, place, db, dbChanges, kd_tree, zip_codes_list, tree_rows, reloads,
                   pc, req, loc, resp>>

\* lines 66-73: state.zip_codes_list = zips
LoadAssignList ==
    /\ lpc = "assign_list"
    /\ zip_codes_list' = Zips(lrows)
    /\ lpc' = "build_tree"
    /\ UNCHANGED <<db_connection, place, db, dbChanges, started, kd_tree, tree_rows, lrows, reloads,
                   pc, req, loc, resp>>

\* line 75: state.kd_tree = KDTree(np.array(coords), leafsize=100); when the
\* constructor raises, load_geo_data is left with state.kd_tree as it was
LoadBuildTree ==
    /\ lpc = "build_tree"
    /\ IF Buildable(Coords(lrows))
       THEN /\ kd_tree' = KDTree(Coords(lrows))
            /\ tree_rows' = lrows
            /\ started' = TRUE
       ELSE /\ kd_tree' = kd_tree
            /\ tree_rows' = tree_rows
            /\ started' = started
    /\ lpc' = "idle"
    /\ lrows' = <<>>
    /\ UNCHANGED <<db_connection, place, db, dbChanges, zip_codes_list, reloads,
                   pc, req, loc, resp>>

\* load_geo_data called again while the routes are served
Reload ==
    /\ started
    /\ lpc = "idle"
    /\ reloads < MaxReloads
    /\ lpc' = "fetch"
    /\ reloads' = reloads + 1
    /\ UNCHANGED <<db_connection, place, db, dbChanges, started, kd_tree, zip_codes_list, tree_rows,
                   lrows, pc, req, loc, resp>>

\* the data preparation job rewrites the table
DbChange ==
    /\ dbChanges < MaxDbChanges
    /\ dbChanges' = dbChanges + 1
    /\ db' \in Datasets \ {db}
    /\ UNCHANGED <<db_connection, place, started, kd_tree, zip_codes_list, tree_rows, lpc, lrows,
                   reloads, pc, req, loc, resp>>

(***************************************************************************)
(* Routes                                                                  *)
(***************************************************************************)
\* mutant: the tree is queried without the None check
FindNearestEnterUnchecked(l) ==
    /\ resp' = NoResponse
    /\ pc' = "fn_query"
    /\ loc' = l

\* find_nearest, lines 96-97, entered with the locals l
FindNearestEnter(l) ==
    IF kd_tree.isNone
    THEN /\ resp' = IndexUnavailable
         /\ pc' = "done"
         /\ loc' = l
    ELSE /\ resp' = NoResponse
         /\ pc' = "fn_query"
         /\ loc' = l

\* line 102: distance, index = state.kd_tree.query([lat, lng], k=1)
FindNearestQuery ==
    /\ pc = "fn_query"
    /\ \E i \in KDQuery(kd_tree, <<loc.lat, loc.lng>>) :
         loc' = [loc EXCEPT !.index = i, !.data = kd_tree.data,
                            !.src_zip = tree_rows[i].zip]
    /\ pc' = "fn_list"
    /\ UNCHANGED <<db_connection, place, db, dbChanges, started, kd_tree, zip_codes_list, tree_rows,
                   lpc, lrows, reloads, req, resp>>

\* line 105: nearest_zip = state.zip_codes_list[index]
FindNearestList ==
    /\ pc = "fn_list"
    /\ IF loc.index > Len(zip_codes_list)
       THEN /\ resp' = ServerError
            /\ pc' = "done"
            /\ loc' = loc
       ELSE /\ resp' = resp
            /\ pc' = "fn_fetch"
            /\ loc' = [loc EXCEPT !.nearest_zip = zip_codes_list[loc.index]]
    /\ UNCHANGED <<db_connection, place, db, dbChanges, started, kd_tree, zip_codes_list, tree_rows,
                   lpc, lrows, reloads, req>>

\* lines 108-116: fetch the row of nearest_zip
FindNearestFetch ==
    /\ pc = "fn_fetch"
    /\ LET hits == SelectByZip(db, loc.nearest_zip)
       IN  resp' = IF hits = <<>> THEN DetailsNotFound ELSE Ok(hits[1])
    /\ loc' = [loc EXCEPT !.db_reads = @ + 1, !.seen = db,
                         !.handle = CursorConnection]
    /\ pc' = "done"
    /\ UNCHANGED <<db_connection, place, db, dbChanges, started, kd_tree, zip_codes_list, tree_rows,
                   lpc, lrows, reloads, req>>

\* lines 118-125; the function takes no parameter, so the query string is ignored
GetRandomZip ==
    /\ Ready
    /\ \E r \in RandomRequests :
         /\ req' = r
         /\ resp' \in IF db = <<>> THEN {DatabaseEmpty}
                      ELSE {Ok(row) : row \in SelectRandom(db)}
    /\ loc' = [Enter("random", NULL, NULL) EXCEPT !.db_reads = 1, !.seen = db,
                                                  !.handle = CursorConnection]
    /\ pc' = "done"
    /\ UNCHANGED <<db_connection, place, db, dbChanges, started, kd_tree, zip_codes_list, tree_rows,
                   lpc, lrows, reloads>>

\* lines 127-132
GetNearestZip ==
    /\ Ready
    /\ \E r \in NearestRequests :
         /\ req' = r
         /\ FindNearestEnter(Enter("nearest", r.lat, r.lng))
    /\ UNCHANGED <<db_connection, place, db, dbChanges, started, kd_tree, zip_codes_list, tree_rows,
                   lpc, lrows, reloads>>

\* lines 156-164: the zip code lookup
ExactLookup(query) ==
    LET hits == SelectByZip(db, LookupKey(query))
    IN  /\ resp' = IF hits = <<>> THEN ZipNotFound ELSE Ok(hits[1])
        /\ loc' = [Enter("exact", NULL, NULL) EXCEPT !.db_reads = 1, !.seen = db,
                                                     !.handle = CursorConnection]
        /\ pc' = "done"

\* lines 134-164
GetZipOrCoords ==
    /\ Ready
    /\ \E r \in QueryRequests :
         /\ req' = r
         /\ LET d == DispatchOf[r]
            IN  CASE d.kind = "bad_lat" ->
                       /\ resp' = BadLatitude
                       /\ loc' = Enter("coords", d.lat, d.lng)
                       /\ pc' = "done"
                  [] d.kind = "bad_lng" ->
                       /\ resp' = BadLongitude
                       /\ loc' = Enter("coords", d.lat, d.lng)
                       /\ pc' = "done"
                  [] d.kind = "nearest" ->
                       FindNearestEnter(Enter("coords", d.lat, d.lng))
                  [] d.kind = "exact" -> ExactLookup(r.path)
    /\ UNCHANGED <<db_connection, place, db, dbChanges, started, kd_tree, zip_codes_list, tree_rows,
                   lpc, lrows, reloads>>

\* the response is sent and the worker takes the next request
Respond ==
    /\ pc = "done"
    /\ pc' = "idle"
    /\ req' = NoRequest
    /\ loc' = NoLocals
    /\ resp' = NoResponse
    /\ UNCHANGED <<db_connection, place, db, dbChanges, started, kd_tree, zip_codes_list, tree_rows,
                   lpc, lrows, reloads>>

\* lifespan, lines 85-87: the service stops and closes state.db_connection
Shutdown ==
    /\ started
    /\ pc = "idle"
    /\ lpc = "idle"
    /\ db_connection = "open"
    /\ db_connection' = "closed"
    /\ started' = FALSE
    /\ UNCHANGED <<place, db, dbChanges, kd_tree, zip_codes_list, tree_rows,
                   lpc, lrows, reloads, pc, req, loc, resp>>

Next ==
    \/ LoadFetch
    \/ LoadAssignList
    \/ LoadBuildTree
    \/ Reload
    \/ DbChange
    \/ GetRandomZip
    \/ GetNearestZip
    \/ GetZipOrCoords
    \/ FindNearestQuery
    \/ FindNearestList
    \/ FindNearestFetch
    \/ Respond
    \/ Shutdown

Spec == Init /\ [][Next]_vars

(***************************************************************************)
(* convert_zcta_place_to_zip_city_state: load_rel_file and                 *)
(* select_best_place_per_zip, run as a script of its own.                  *)
(***************************************************************************)
serviceVars == <<db, dbChanges, started, kd_tree, zip_codes_list, tree_rows,
                 lpc, lrows, reloads, pc, req, loc, resp, db_connection>>

\* a row as load_rel_file appends it: zpop is 0.0 for every row
RelRow(zcta, statefp, placefp, zarea) ==
    [zcta |-> zcta, statefp |-> statefp, placefp |-> placefp,
     zpop |-> 0, zarea |-> zarea]

ZCTAs == {"00601", "00602"}
PlaceFPs == {"00100", "00200"}
Areas == {0, 1, 2}

RelRows == {RelRow(z, "72", p, a) : z \in ZCTAs, p \in PlaceFPs, a \in Areas}

RECURSIVE SeqsUpTo(_, _)
SeqsUpTo(S, n) ==
    IF n = 0 THEN {<<>>}
    ELSE LET shorter == SeqsUpTo(S, n - 1)
         IN  shorter \cup {Append(q, x) : q \in shorter, x \in S}

NoBest == [z \in {} |-> 0]

\* r.get(key, 0.0) with key = "zpop" if how == "max_pop" else "zarea"
Score(r, how) == IF how = "max_pop" THEN r.zpop ELSE r.zarea

\* mutant: a row that ties with the best so far replaces it
BestAfterLastWins(best, r, how) ==
    IF r.zcta \notin DOMAIN best \/ Score(r, how) >= best[r.zcta].score
    THEN [z \in DOMAIN best \cup {r.zcta} |->
             IF z = r.zcta
             THEN [statefp |-> r.statefp, placefp |-> r.placefp, score |-> Score(r, how)]
             ELSE best[z]]
    ELSE best

\* one iteration of the loop, lines 95-104
BestAfter(best, r, how) ==
    IF r.zcta \notin DOMAIN best \/ Score(r, how) > best[r.zcta].score
    THEN [z \in DOMAIN best \cup {r.zcta} |->
             IF z = r.zcta
             THEN [statefp |-> r.statefp, placefp |-> r.placefp, score |-> Score(r, how)]
             ELSE best[z]]
    ELSE best

InitPlace ==
    /\ db = DS_EMPTY
    /\ dbChanges = 0
    /\ started = FALSE
    /\ kd_tree = NoTree
    /\ zip_codes_list = <<>>
    /\ tree_rows = <<>>
    /\ lpc = "idle"
    /\ lrows = <<>>
    /\ reloads = 0
    /\ pc = "idle"
    /\ req = NoRequest
    /\ loc = NoLocals
    /\ resp = NoResponse
    /\ db_connection = "closed"
    /\ \E how \in {"max_pop", "max_area"}, rows \in SeqsUpTo(RelRows, MaxRelRows) :
         place = [pc |-> "loop", how |-> how, rel_rows |-> rows, i |-> 1,
                  best |-> NoBest, result |-> NoBest]

\* lines 95-104: the next row of rel_rows
SelectStep ==
    /\ place.pc = "loop"
    /\ place.i <= Len(place.rel_rows)
    /\ place' = [place EXCEPT
                   !.best = BestAfter(place.best, place.rel_rows[place.i], place.how),
                   !.i = @ + 1]
    /\ UNCHANGED serviceVars

\* line 105: return {z: (v["statefp"], v["placefp"]) for z, v in best.items()}
SelectReturn ==
    /\ place.pc = "loop"
    /\ place.i > Len(place.rel_rows)
    /\ place' = [place EXCEPT
                   !.result = [z \in DOMAIN place.best |->
                                  <<place.best[z].statefp, place.best[z].placefp>>],
                   !.pc = "done"]
    /\ UNCHANGED serviceVars

NextPlace ==
    \/ SelectStep
    \/ SelectReturn

SpecPlace == InitPlace /\ [][NextPlace]_vars

(***************************************************************************)
(* Properties                                                              *)
(***************************************************************************)
Done == pc = "done"

NearestQuery == loc.mode \in {"nearest", "coords"}

\* the path is two comma-separated parts that both parse as floats
CoordinateForm(path) ==
    LET parts == Split(path, ",")
    IN  Len(parts) = 2 /\ ParseFloat(parts[1]).ok /\ ParseFloat(parts[2]).ok

PathLat(path) == ParseFloat(Split(path, ",")[1]).val
PathLng(path) == ParseFloat(Split(path, ",")[2]).val

\* -m <= v <= m for a finite decimal v
Within(v, m) == v.kind = "num" /\ -m * v.den <= v.num /\ v.num <= m * v.den

HasZip(table, z) == \E i \in 1..Len(table) : table[i].zip = z

HasText(t) == t # NoText /\ t # ""

Lcm(a, b) == (a * b) \div GCD(a, b)

\* a common denominator of the coordinates of the points ps
RECURSIVE CommonDen(_)
CommonDen(ps) ==
    IF ps = <<>> THEN 1
    ELSE Lcm(Lcm(Head(ps)[1].den, Head(ps)[2].den), CommonDen(Tail(ps)))

\* squared Euclidean distance of p and q, in units of 1/k^2
Dist2(p, q, k) ==
    LET at(v) == v.num * (k \div v.den)
    IN  Sq(at(p[1]) - at(q[1])) + Sq(at(p[2]) - at(q[2]))

\* C1: GET /nearest answers 400, naming the field, whenever lat is outside
\* [-90, 90] or lng is outside [-180, 180] (stated here for a loaded index),
\* and no in-range pair is rejected.
C1_NearestRouteValidates ==
    (Done /\ loc.mode = "nearest" /\ ~loc.tree_none) =>
        /\ ~Within(req.lat, 90) => resp = BadLatitude
        /\ (Within(req.lat, 90) /\ ~Within(req.lng, 180)) => resp = BadLongitude
        /\ (Within(req.lat, 90) /\ Within(req.lng, 180)) => resp.status # 400

\* C2: a path "a,b" of two floats answers 400 exactly when a is outside
\* [-90, 90] (latitude message) or, a being in range, b is outside [-180, 180]
\* (longitude message); a rejected pair is never looked up as a zip code, and
\* an in-range pair goes on to the nearest-neighbor query.
C2_CoordPathValidation ==
    (pc # "idle" /\ Route(req.path) = "get_zip_or_coords" /\ CoordinateForm(req.path)) =>
        LET a == PathLat(req.path)
            b == PathLng(req.path)
        IN  /\ (resp = BadLatitude) <=> ~Within(a, 90)
            /\ (resp = BadLongitude) <=> (Within(a, 90) /\ ~Within(b, 180))
            /\ (resp.status = 400) <=> ~(Within(a, 90) /\ Within(b, 180))
            /\ resp.status = 400 => (Done /\ loc.mode = "coords" /\ loc.db_reads = 0)
            /\ (Within(a, 90) /\ Within(b, 180)) =>
                  /\ loc.mode = "coords"
                  /\ loc.lat = a /\ loc.lng = b
                  /\ Done => (resp = IndexUnavailable \/ loc.index > 0)

C2_Witness ==
    /\ Done
    /\ req.path = <<"9", "0", ",", "-", "1", "8", "1">>
    /\ resp = BadLongitude

C4_UnloadedAlwaysUnavailable ==
    /\ (pc # "idle" /\ loc.tree_none /\ NearestQuery) =>
          (Done /\ resp = IndexUnavailable /\ loc.db_reads = 0)
    /\ (Done /\ loc.tree_none /\ loc.mode = "exact" /\ HasZip(loc.seen, req.path)) =>
          (resp.status = 200 /\ resp.body[1].zip = req.path)

\* C4 as amended: while state.kd_tree is None every /nearest query and every
\* coordinate path whose pair is in range answers 503, a coordinate path whose
\* pair is out of range answers 400, none of them runs a statement on the
\* store, and the lookup of a code the store holds answers its row.
C4_UnloadedUnavailable ==
    /\ (pc # "idle" /\ loc.tree_none /\ NearestQuery) =>
          /\ Done
          /\ loc.db_reads = 0
          /\ IF loc.mode = "coords" /\ ~(Within(loc.lat, 90) /\ Within(loc.lng, 180))
             THEN resp.status = 400
             ELSE resp.status = 503 /\ resp.detail = "Geospatial index not unavailable"
    /\ (Done /\ loc.tree_none /\ loc.mode = "exact" /\ HasZip(loc.seen, req.path)) =>
          (resp.status = 200 /\ resp.body[1].zip = req.path)

C4_Witness ==
    /\ Done
    /\ loc.tree_none
    /\ req.path = <<"1", "8", ".", "5", ",", "-", "6", "6">>
    /\ resp.status = 503
    /\ HasZip(db, Z00601)

\* C5: a path that is looked up as a code answers the row whose zip equals the
\* path character for character when the store has one, and 404 "Zip code not
\* found" otherwise.
C5_ExactLookup ==
    (Done /\ loc.mode = "exact") =>
        IF HasZip(loc.seen, req.path)
        THEN /\ resp.status = 200
             /\ resp.body[1].zip = req.path
             /\ \E k \in 1..Len(loc.seen) : loc.seen[k] = resp.body[1]
        ELSE resp.status = 404 /\ resp.detail = "Zip code not found"

C5_Witness ==
    /\ Done
    /\ loc.mode = "exact"
    /\ req.path = <<" ", "0", "0", "6", "0", "1">>
    /\ HasZip(loc.seen, Z00601)
    /\ resp.status = 404

\* C6: get_zip_or_coords handles its path as a coordinate query if and only
\* if the path splits on "," into exactly two parts that both parse as floats;
\* every other path is looked up whole as a code.
C6_Dispatch ==
    (pc # "idle" /\ Route(req.path) = "get_zip_or_coords") =>
        /\ loc.mode \in {"coords", "exact"}
        /\ (loc.mode = "coords") <=> CoordinateForm(req.path)
        /\ loc.mode = "coords" =>
              (loc.lat = PathLat(req.path) /\ loc.lng = PathLng(req.path))
        /\ loc.mode = "exact" =>
              /\ Done
              /\ loc.db_reads = 1
              /\ resp.status \in {200, 404}
              /\ resp.status = 200 <=> HasZip(loc.seen, req.path)
              /\ resp.status = 200 => resp.body[1].zip = req.path

C6_Witness ==
    /\ Done
    /\ req.path = <<"1", "8", ".", "5", ",", "-", "6", "6", ",", "0">>
    /\ loc.mode = "exact"
    /\ resp.status = 404

\* C7: a nearest query that runs while load_geo_data reloads reads its code
\* from the list built together with the tree it queried: the code it resolves
\* is the zip of the row its tree position came from, and the list has that
\* position.
C7_ReloadAtomic ==
    /\ pc = "fn_fetch" => loc.nearest_zip = loc.src_zip
    /\ (Done /\ NearestQuery) => resp.status # 500

\* C8: a nearest query that resolves to a code the store does not hold answers
\* an error that differs from the answer to the lookup of an absent code.
C8_InconsistencyDistinct ==
    /\ (Done /\ NearestQuery /\ loc.db_reads = 1 /\ ~HasZip(loc.seen, loc.nearest_zip)) =>
          /\ resp.status >= 400
          /\ resp.body = <<>>
          /\ resp # ZipNotFound
    /\ (Done /\ loc.mode = "exact" /\ ~HasZip(loc.seen, req.path)) =>
          resp = ZipNotFound

C8_Witness ==
    /\ Done
    /\ NearestQuery
    /\ loc.db_reads = 1
    /\ ~HasZip(loc.seen, loc.nearest_zip)
    /\ resp.status = 404

\* C9: GET /zips answers 200 for valid parameters and 400 for a sort_by
\* outside the allowed fields or an order outside {asc, desc}.
C9_ZipsListing ==
    (Done /\ req.path = P_zips) =>
        IF req.sort_by = "invalid_field" \/ req.order = "invalid_order"
        THEN resp.status = 400
        ELSE resp.status = 200

\* C10: GET /random answers "Database is empty" (404) on a table with no rows
\* and a row of the table otherwise; with city_and_state_only=true, on a table
\* that has a row with city and state, the row it answers has both non-empty.
C10_RandomFilter ==
    (Done /\ loc.mode = "random") =>
        /\ loc.seen = <<>> => resp = DatabaseEmpty
        /\ loc.seen # <<>> =>
              /\ resp.status = 200
              /\ \E k \in 1..Len(loc.seen) : loc.seen[k] = resp.body[1]
        /\ ( /\ req.city_and_state_only
             /\ \E k \in 1..Len(loc.seen) :
                   HasText(loc.seen[k].city) /\ HasText(loc.seen[k].state) ) =>
              /\ resp.status = 200
              /\ HasText(resp.body[1].city)
              /\ HasText(resp.body[1].state)

C12_ListMatchesTree ==
    (~kd_tree.isNone /\ lpc = "idle") =>
        /\ Len(zip_codes_list) = Len(kd_tree.data)
        /\ \A i \in 1..Len(kd_tree.data) :
              /\ zip_codes_list[i] = tree_rows[i].zip
              /\ kd_tree.data[i] = <<tree_rows[i].lat, tree_rows[i].lng>>

\* C13: when load_geo_data returns from a store that has no row with both
\* coordinates, the service has no spatial index (so that every later nearest
\* query is answered "index unavailable"), whatever it held before.
C13_EmptyLoadUnloads ==
    [][(lpc = "fetch" /\ lpc' = "idle") => kd_tree'.isNone]_vars

\* C14: select_best_place_per_zip returns one place for each ZCTA of the input
\* rows and no other; the place is that of the earliest row of the ZCTA whose
\* score (zarea for max_area, zpop for max_pop) no row of the ZCTA exceeds;
\* zpop being 0.0 in every row, max_pop returns the first row of each ZCTA.
C14_BestPlacePerZip ==
    place.pc = "done" =>
        LET rows == place.rel_rows
            sc(i) == IF place.how = "max_area" THEN rows[i].zarea ELSE rows[i].zpop
            of(z) == {i \in 1..Len(rows) : rows[i].zcta = z}
        IN  /\ DOMAIN place.result = {rows[i].zcta : i \in 1..Len(rows)}
            /\ \A z \in DOMAIN place.result :
                  \E i \in of(z) :
                     /\ \A j \in of(z) : sc(j) <= sc(i)
                     /\ \A j \in of(z) : j < i => sc(j) < sc(i)
                     /\ place.result[z] = <<rows[i].statefp, rows[i].placefp>>
                     /\ place.how = "max_pop" => \A j \in of(z) : i <= j

C14_Witness ==
    /\ place.pc = "done"
    /\ place.how = "max_area"
    /\ Len(place.rel_rows) = 3
    /\ \A i \in 1..3 : place.rel_rows[i].zcta = "00601"
    /\ place.rel_rows[1].zarea = 1
    /\ place.rel_rows[2].zarea = 2
    /\ place.rel_rows[3].zarea = 2
    /\ place.rel_rows[2].placefp = "00200"
    /\ place.rel_rows[3].placefp = "00100"
    /\ place.result["00601"] = <<"72", "00200">>
====
